---- MODULE Spec2Model ----
(***************************************************************************)
(* Shot plotter: the scoring function compute_score, and the shot log of   *)
(* the two applications of the repository, the Dash application            *)
(* (dash_app.py: the callbacks update_shots and trigger_download) and the  *)
(* Streamlit application (streamlit_app.py: one run of the script per      *)
(* widget interaction).                                                    *)
(*                                                                         *)
(* Numbers.  Ring diameters are whole millimetres.  Every length the code  *)
(* holds in a float (dx_mm, dy_mm, distance_mm) is held here as an integer *)
(* that counts units of 1/canvas_size mm: dx_mm = (px - center) /          *)
(* (canvas_size / max_diameter) is then exactly (px - center) *            *)
(* max_diameter.  hypot rounds up to the next unit; the only use of a      *)
(* distance is its comparison with diameter / 2, a whole number of units,  *)
(* which rounding up leaves as it is for the real distance.                *)
(***************************************************************************)
EXTENDS Integers, Sequences, FiniteSets

VARIABLES
    variant,               \* "dash", "streamlit": which application runs; "score": compute_score alone
    shots,                 \* dcc.Store "shots-store" / st.session_state.shots
    selected,              \* dropdown "target-select" value / selectbox value selected_target
    clicked,               \* Graph clickData points / plotly_events value clicked_points; <<>> is None / []
    active_target,         \* st.session_state.active_target
    last_click_signature,  \* st.session_state.last_click_signature; <<>> is None
    export_out,            \* what the latest operation exported: dcc.Download data / shot_log.csv
    render_queue,          \* Dash: the requests of update_outputs not yet run, with their inputs
    table_data,            \* Dash: the data of the DataTable "shot-table"
    err,                   \* outcome of the latest callback or script run: "ok" or the exception raised
    op,                    \* the latest operation: "init", "click", "clear", "select", "export", "render"
    cleared_len,           \* history: how many shots the latest press of Clear discarded
    fn_rings,              \* compute_score alone: the rings of the target
    fn_distance,           \* compute_score alone: distance_mm
    fn_outcome,            \* compute_score alone: "pending", "returned"
    fn_result              \* compute_score alone: the value returned

vars == <<variant, shots, selected, clicked, active_target, last_click_signature,
          export_out, render_queue, table_data, err, op, cleared_len,
          fn_rings, fn_distance, fn_outcome, fn_result>>

app_vars == <<shots, selected, clicked, active_target, last_click_signature,
              export_out, render_queue, table_data, err, op, cleared_len>>

fn_vars == <<fn_rings, fn_distance, fn_outcome, fn_result>>

---------------------------------------------------------------------------
\* Bounds of the model.

MaxRings == 3

MaxDiameter == 3

MaxPoints == 2

MaxShots == 3

\* Requests of update_outputs that may wait at once.
MaxPending == 1

---------------------------------------------------------------------------
\* Program constants.

canvas_size == 800

center == canvas_size \div 2

DefaultTarget == "ISSF 10m Air Rifle Target"

\* The catalog file target_specs.json: three targets.  The rings of the
\* first are listed outermost first, those of the second innermost first;
\* the third has no ring, which the code loads without complaint.
TARGET_SPECS ==
    << [type |-> "ISSF 10m Air Rifle Target",
        rings |-> << [diameter |-> 8, points |-> 1],
                     [diameter |-> 2, points |-> 10],
                     [diameter |-> 4, points |-> 5] >>],
       [type |-> "Practice Target",
        rings |-> << [diameter |-> 5, points |-> 7],
                     [diameter |-> 10, points |-> 3] >>],
       [type |-> "Blank Target",
        rings |-> << >>] >>

target_options == {TARGET_SPECS[i].type : i \in DOMAIN TARGET_SPECS}

get_target_config(target_name) ==
    TARGET_SPECS[CHOOSE i \in DOMAIN TARGET_SPECS : TARGET_SPECS[i].type = target_name]

---------------------------------------------------------------------------
\* Scoring.

\* list.insert of ring r into the ascending list s, after every ring whose
\* diameter is not larger: what keeps sorted() stable.
RECURSIVE InsertByDiameter(_, _)
InsertByDiameter(r, s) ==
    IF s = << >> THEN << r >>
    ELSE IF r.diameter < Head(s).diameter THEN << r >> \o s
    ELSE << Head(s) >> \o InsertByDiameter(r, Tail(s))

\* sorted(rings, key=lambda r: r["diameter"]): ascending and stable.
RECURSIVE sorted(_)
sorted(rings) ==
    IF rings = << >> THEN << >>
    ELSE InsertByDiameter(rings[Len(rings)], sorted(SubSeq(rings, 1, Len(rings) - 1)))

\* The mutant of ring_contains: the boundary left out.
ring_contains_strict(ring, distance_mm) ==
    2 * distance_mm < ring.diameter * canvas_size

\* distance_mm <= ring["diameter"] / 2, the distance in units of 1/canvas_size mm.
ring_contains(ring, distance_mm) ==
    2 * distance_mm <= ring.diameter * canvas_size

\* The loop of compute_score over an ordered list of rings.
RECURSIVE scan(_, _)
scan(ordered, distance_mm) ==
    IF ordered = << >> THEN 0
    ELSE IF ring_contains(Head(ordered), distance_mm) THEN Head(ordered).points
    ELSE scan(Tail(ordered), distance_mm)

\* The mutant of compute_score: the rings scanned in listed order.
compute_score_unsorted(rings, distance_mm) ==
    scan(rings, distance_mm)

\* The mutant of compute_score: the rings scanned from the largest down.
RECURSIVE scan_reversed(_, _)
scan_reversed(ordered, distance_mm) ==
    IF ordered = << >> THEN 0
    ELSE IF ring_contains(ordered[Len(ordered)], distance_mm) THEN ordered[Len(ordered)].points
    ELSE scan_reversed(SubSeq(ordered, 1, Len(ordered) - 1), distance_mm)

compute_score_outermost(rings, distance_mm) ==
    scan_reversed(sorted(rings), distance_mm)

\* compute_score, on the rings of the target: the points of the first ring,
\* in ascending order of diameter, whose radius reaches the distance; 0
\* when none does, and when there is no ring.
compute_score(rings, distance_mm) ==
    scan(sorted(rings), distance_mm)

\* The least n with n * n >= s, for lo <= n <= hi.
RECURSIVE CeilSqrtIn(_, _, _)
CeilSqrtIn(s, lo, hi) ==
    IF lo >= hi THEN lo
    ELSE LET mid == (lo + hi) \div 2
         IN  IF mid * mid >= s THEN CeilSqrtIn(s, lo, mid)
             ELSE CeilSqrtIn(s, mid + 1, hi)

Abs(n) == IF n < 0 THEN -n ELSE n

\* math.hypot(dx_mm, dy_mm), rounded up to the next unit.
hypot(dx_mm, dy_mm) ==
    CeilSqrtIn(dx_mm * dx_mm + dy_mm * dy_mm, 0, Abs(dx_mm) + Abs(dy_mm))

\* max(r["diameter"] for r in rings), of a ring list that is not empty.
max_diameter(rings) ==
    LET ds == {rings[i].diameter : i \in DOMAIN rings}
    IN  CHOOSE d \in ds : \A e \in ds : e <= d

\* b ** k % d
RECURSIVE PowMod(_, _, _)
PowMod(b, k, d) ==
    IF k = 0 THEN 1 % d ELSE (b * PowMod(b, k - 1, d)) % d

\* The binary exponent of n / d, for n > 0: the p with 2^p <= n / d < 2^(p+1).
RECURSIVE Exponent2(_, _, _)
Exponent2(n, d, p) ==
    IF n >= d * 2 THEN Exponent2(n, d * 2, p + 1)
    ELSE IF n < d THEN Exponent2(n * 2, d, p - 1)
    ELSE p

\* How the float that holds n / d (n > 0) lies to n / d: 0 when it is n / d
\* exactly, 1 when above, -1 when below.  A float keeps 53 bits: with
\* k = 52 - exponent, it is the integer nearest to n * 2^k / d, and the
\* remainder of n * 2^k by d tells which way that went.
float_error(n, d) ==
    LET k == 52 - Exponent2(n, d, 0)
        rho == ((n % d) * PowMod(2, k, d)) % d
    IN  IF rho = 0 THEN 0 ELSE IF 2 * rho < d THEN -1 ELSE 1

\* round(v, 2) of a length in units of 1/canvas_size mm: the nearest
\* hundredth of a millimetre (8 units).  Python rounds the float it holds:
\* on half a hundredth it goes the way the float lies to the decimal value
\* (round(0.025, 2) is 0.03, round(0.075, 2) is 0.07), and to the even
\* hundredth when the float is the value exactly (round(0.125, 2) is 0.12).
\* The float is that of v / canvas_size, which is what the code's
\* (px - center) / pixels_per_mm holds when canvas_size / max_diameter is a
\* float exactly, as it is for the targets of TARGET_SPECS.
round2(v) ==
    LET step == canvas_size \div 100
        a == Abs(v)
        f == a \div step
        r == a % step
        e == float_error(a, canvas_size)
        h == IF 2 * r < step THEN f
             ELSE IF 2 * r > step THEN f + 1
             ELSE IF e > 0 THEN f + 1
             ELSE IF e < 0 THEN f
             ELSE IF f % 2 = 0 THEN f ELSE f + 1
    IN  IF v < 0 THEN -(step * h) ELSE step * h

---------------------------------------------------------------------------
\* The shot log: what both applications do with a click.

\* The clicks the plot can report: curveNumber, pointIndex and the pixel
\* position.  A point on a ring boundary, reported for two different
\* markers; the edge of the canvas, on the outermost ring; a point whose x_mm on
\* "Practice Target" is half a hundredth (-0.025) and whose y_mm is off the
\* hundredths (-0.0375), and a corner outside every ring.
ClickEvents ==
    { [curveNumber |-> 0, pointIndex |-> 0, x |-> 500, y |-> 400],
      [curveNumber |-> 0, pointIndex |-> 1, x |-> 500, y |-> 400],
      [curveNumber |-> 0, pointIndex |-> 0, x |-> 800, y |-> 400],
      [curveNumber |-> 0, pointIndex |-> 0, x |-> 398, y |-> 403],
      [curveNumber |-> 0, pointIndex |-> 0, x |-> 800, y |-> 800] }

\* The mutant of shot_number: the index counted from zero.
shot_number_from_zero(log) ==
    Len(log)

\* len(shots) + 1
shot_number(log) ==
    Len(log) + 1

\* The shot of a click at `point` on a target with the rings `rings` (not
\* empty), appended to `log`.  pixels_per_mm = canvas_size / max_diameter,
\* so dx_mm = (px - center) / pixels_per_mm is (px - center) * max_diameter
\* units of 1/canvas_size mm.
log_click(point, rings, log) ==
    LET px == point.x
        py == point.y
        dx_mm == (px - center) * max_diameter(rings)
        dy_mm == (center - py) * max_diameter(rings)
        distance_mm == hypot(dx_mm, dy_mm)
        score == compute_score(rings, distance_mm)
    IN  Append(log, [shot |-> shot_number(log), score |-> score,
                     x_mm |-> dx_mm, y_mm |-> dy_mm,
                     pixel_x |-> px, pixel_y |-> py])

\* No export: dash.no_update, or a run that saved nothing.
NoExport == [sent |-> FALSE, header |-> << >>, rows |-> << >>]

---------------------------------------------------------------------------
\* The Dash application.

\* The mutant of resets_log: the Clear button forgotten.
resets_log_on_target_only(triggered) ==
    triggered = "target-select"

\* triggered in {"clear-btn", "target-select"}
resets_log(triggered) ==
    triggered \in {"clear-btn", "target-select"}

\* The callback update_shots: the new data of shots-store, or the
\* exception that max() raises on a target without rings.
update_shots(triggered, click_data, target_name, log) ==
    IF resets_log(triggered)
      THEN [raised |-> FALSE, shots |-> << >>]
    ELSE IF triggered = "target-graph" /\ click_data # << >>
      THEN LET rings == get_target_config(target_name).rings
           IN  IF rings = << >>
                 THEN [raised |-> TRUE, shots |-> log]
                 ELSE [raised |-> FALSE, shots |-> log_click(click_data[1], rings, log)]
    ELSE [raised |-> FALSE, shots |-> log]

\* The callback update_outputs: the rows of the shot table, or the
\* exception that build_target_figure's max() raises.
update_outputs(target_name, log) ==
    IF get_target_config(target_name).rings = << >>
      THEN [raised |-> TRUE, table_data |-> << >>]
      ELSE [raised |-> FALSE,
            table_data |-> [i \in DOMAIN log |->
                              [shot |-> log[i].shot, score |-> log[i].score,
                               x_mm |-> round2(log[i].x_mm), y_mm |-> round2(log[i].y_mm)]]]

\* pd.DataFrame(shots).to_csv(index=False): every key of the stored shots
\* is a column, the values as stored.
dash_csv(log) ==
    [sent |-> TRUE,
     header |-> << "shot", "score", "x_mm", "y_mm", "pixel_x", "pixel_y" >>,
     rows |-> [i \in DOMAIN log |->
                 << log[i].shot, log[i].score, log[i].x_mm, log[i].y_mm,
                    log[i].pixel_x, log[i].pixel_y >>]]

\* The mutant of trigger_download: the empty log exported too.
trigger_download_unguarded(log) ==
    dash_csv(log)

\* The callback trigger_download.
trigger_download(log) ==
    IF log = << >> THEN NoExport ELSE dash_csv(log)

Outcome(raised) == IF raised THEN "ValueError" ELSE "ok"

\* The request of update_outputs that a write of shots-store or a change
\* of target-select starts: Dash sends it once update_shots has answered,
\* with the values the two inputs have then.
render_request(target_name, log) ==
    [target_name |-> target_name, shots |-> log]

\* A click on the graph: clickData is set and update_shots runs.  When it
\* raises, the store is not written and update_outputs is not requested.
DashClick ==
    /\ variant = "dash"
    /\ Len(shots) < MaxShots
    /\ Len(render_queue) < MaxPending
    /\ \E point \in ClickEvents :
         LET r == update_shots("target-graph", << point >>, selected, shots)
         IN  /\ clicked' = << point >>
             /\ shots' = r.shots
             /\ err' = Outcome(r.raised)
             /\ render_queue' = IF r.raised THEN render_queue
                                ELSE Append(render_queue, render_request(selected, r.shots))
    /\ op' = "click"
    /\ export_out' = NoExport
    /\ UNCHANGED <<variant, selected, active_target, last_click_signature,
                   table_data, cleared_len>>
    /\ UNCHANGED fn_vars

\* A press of "Clear shots": update_shots runs.
DashClear ==
    /\ variant = "dash"
    /\ Len(render_queue) < MaxPending
    /\ LET r == update_shots("clear-btn", clicked, selected, shots)
       IN  /\ shots' = r.shots
           /\ err' = Outcome(r.raised)
           /\ render_queue' = Append(render_queue, render_request(selected, r.shots))
    /\ op' = "clear"
    /\ cleared_len' = Len(shots)
    /\ export_out' = NoExport
    /\ UNCHANGED <<variant, selected, clicked, active_target, last_click_signature,
                   table_data>>
    /\ UNCHANGED fn_vars

\* Another target chosen in the dropdown: update_shots runs.
DashSelect ==
    /\ variant = "dash"
    /\ Len(render_queue) < MaxPending
    /\ \E target_name \in target_options \ {selected} :
         LET r == update_shots("target-select", clicked, target_name, shots)
         IN  /\ selected' = target_name
             /\ shots' = r.shots
             /\ err' = Outcome(r.raised)
             /\ render_queue' = Append(render_queue, render_request(target_name, r.shots))
    /\ op' = "select"
    /\ cleared_len' = 0
    /\ export_out' = NoExport
    /\ UNCHANGED <<variant, clicked, active_target, last_click_signature, table_data>>
    /\ UNCHANGED fn_vars

\* The oldest waiting request of update_outputs runs: the table is written,
\* or the callback raises and the table stays as it is.
DashRender ==
    /\ variant = "dash"
    /\ render_queue # << >>
    /\ LET r == update_outputs(Head(render_queue).target_name, Head(render_queue).shots)
       IN  /\ table_data' = IF r.raised THEN table_data ELSE r.table_data
           /\ err' = Outcome(r.raised)
    /\ render_queue' = Tail(render_queue)
    /\ op' = "render"
    /\ export_out' = NoExport
    /\ UNCHANGED <<variant, shots, selected, clicked, active_target,
                   last_click_signature, cleared_len>>
    /\ UNCHANGED fn_vars

\* A press of "Download CSV": trigger_download runs, whether or not a
\* request of update_outputs is waiting.
DashDownload ==
    /\ variant = "dash"
    /\ export_out' = trigger_download(shots)
    /\ err' = "ok"
    /\ op' = "export"
    /\ UNCHANGED <<variant, shots, selected, clicked, active_target,
                   last_click_signature, render_queue, table_data, cleared_len>>
    /\ UNCHANGED fn_vars

---------------------------------------------------------------------------
\* The Streamlit application: the script runs once per widget interaction.

\* (point.get("curveNumber"), point.get("pointIndex"), px, py)
click_signature(point) ==
    << point.curveNumber, point.pointIndex, point.x, point.y >>

\* The mutant of is_repeated_click: no click taken for a repeat.
is_repeated_click_never(signature, last) ==
    FALSE

\* click_signature == st.session_state.last_click_signature
is_repeated_click(signature, last) ==
    signature = last

\* The data frame of the shot log, and df.to_csv("shot_log.csv", index=False).
streamlit_csv(log) ==
    [sent |-> TRUE,
     header |-> << "Shot", "Score", "X (mm)", "Y (mm)" >>,
     rows |-> [i \in DOMAIN log |->
                 << log[i].shot, log[i].score, round2(log[i].x_mm), round2(log[i].y_mm) >>]]

\* One pass of the script over the session state `ss`, with the widget
\* values of this run: the selectbox, the value of the plot component, and
\* which button was pressed.  `rerun` is st.experimental_rerun(), which
\* ends the pass where it is called.
script_pass(ss, selected_target, clicked_points, save_pressed, clear_pressed) ==
    LET rings == get_target_config(selected_target).rings
        quiet == [raised |-> FALSE, rerun |-> FALSE, export |-> NoExport]
    IN  IF rings = << >>
          THEN \* max() of no diameter raises before the session state is touched
               [raised |-> TRUE, rerun |-> FALSE, export |-> NoExport, ss |-> ss]
          ELSE
            LET s1 == IF selected_target # ss.active_target
                        THEN [shots |-> << >>, active_target |-> selected_target,
                              last_click_signature |-> << >>]
                        ELSE ss
                signature == click_signature(clicked_points[1])
                fresh == /\ clicked_points # << >>
                         /\ ~is_repeated_click(signature, s1.last_click_signature)
                s2 == IF fresh THEN [s1 EXCEPT !.last_click_signature = signature] ELSE s1
            IN  IF fresh
                  THEN [raised |-> FALSE, rerun |-> TRUE, export |-> NoExport,
                        ss |-> [s2 EXCEPT !.shots = log_click(clicked_points[1], rings, s2.shots)]]
                ELSE IF s2.shots = << >>
                  THEN [raised |-> FALSE, rerun |-> FALSE, export |-> NoExport, ss |-> s2]
                ELSE IF save_pressed
                  THEN [raised |-> FALSE, rerun |-> FALSE, export |-> streamlit_csv(s2.shots),
                        ss |-> s2]
                ELSE IF clear_pressed
                  THEN [raised |-> FALSE, rerun |-> TRUE, export |-> NoExport,
                        ss |-> [s2 EXCEPT !.shots = << >>]]
                ELSE [raised |-> FALSE, rerun |-> FALSE, export |-> NoExport, ss |-> s2]

\* The run an interaction starts: a pass, and when it asks for a rerun the
\* pass that follows it, with the same widget values and no button pressed.
script_run(ss, selected_target, clicked_points, save_pressed, clear_pressed) ==
    LET first == script_pass(ss, selected_target, clicked_points, save_pressed, clear_pressed)
    IN  IF first.rerun
          THEN script_pass(first.ss, selected_target, clicked_points, FALSE, FALSE)
          ELSE first

session_state ==
    [shots |-> shots, active_target |-> active_target,
     last_click_signature |-> last_click_signature]

\* The effect of a run on the session state and on what the page shows.
Ran(r) ==
    /\ shots' = r.ss.shots
    /\ active_target' = r.ss.active_target
    /\ last_click_signature' = r.ss.last_click_signature
    /\ export_out' = r.export
    /\ err' = Outcome(r.raised)

\* A click on the plot: the component's value changes and the script runs.
\* The plot is on the page only when the latest run reached it.
StClick ==
    /\ variant = "streamlit"
    /\ err = "ok"
    /\ Len(shots) < MaxShots
    /\ \E point \in ClickEvents :
         /\ clicked' = << point >>
         /\ Ran(script_run(session_state, selected, << point >>, FALSE, FALSE))
    /\ op' = "click"
    /\ UNCHANGED <<variant, selected, render_queue, table_data, cleared_len>>
    /\ UNCHANGED fn_vars

\* Another target chosen in the sidebar.
StSelect ==
    /\ variant = "streamlit"
    /\ \E target_name \in target_options \ {selected} :
         /\ selected' = target_name
         /\ Ran(script_run(session_state, target_name, clicked, FALSE, FALSE))
    /\ op' = "select"
    /\ cleared_len' = 0
    /\ UNCHANGED <<variant, clicked, render_queue, table_data>>
    /\ UNCHANGED fn_vars

\* A press of "Save as CSV": the button is on the page only under a log
\* that is not empty.
StSave ==
    /\ variant = "streamlit"
    /\ err = "ok"
    /\ shots # << >>
    /\ Ran(script_run(session_state, selected, clicked, TRUE, FALSE))
    /\ op' = "export"
    /\ UNCHANGED <<variant, selected, clicked, render_queue, table_data, cleared_len>>
    /\ UNCHANGED fn_vars

\* A press of "Clear shots": on the page only under a log that is not empty.
StClear ==
    /\ variant = "streamlit"
    /\ err = "ok"
    /\ shots # << >>
    /\ Ran(script_run(session_state, selected, clicked, FALSE, TRUE))
    /\ op' = "clear"
    /\ cleared_len' = Len(shots)
    /\ UNCHANGED <<variant, selected, clicked, render_queue, table_data>>
    /\ UNCHANGED fn_vars

---------------------------------------------------------------------------
\* compute_score alone, on ring lists and distances of the bounded sets.

RingSpecs == [diameter : 1..MaxDiameter, points : 1..MaxPoints]

RingLists == UNION {[1..n -> RingSpecs] : n \in 0..MaxRings}

\* Distances in units of 1/canvas_size mm: every half millimetre up to
\* beyond the largest radius, and one unit past each.
Distances == {(canvas_size \div 2) * h + e : h \in 0..(MaxDiameter + 1), e \in {0, 1}}

CallScore ==
    /\ variant = "score"
    /\ fn_outcome = "pending"
    /\ fn_result' = compute_score(fn_rings, fn_distance)
    /\ fn_outcome' = "returned"
    /\ UNCHANGED <<variant, fn_rings, fn_distance>>
    /\ UNCHANGED app_vars

---------------------------------------------------------------------------
\* The specifications.

\* The page after its first load: the default target, no shot, no click,
\* the first call of update_outputs done.
InitApp ==
    /\ shots = << >>
    /\ selected = DefaultTarget
    /\ clicked = << >>
    /\ active_target = DefaultTarget
    /\ last_click_signature = << >>
    /\ export_out = NoExport
    /\ render_queue = << >>
    /\ table_data = << >>
    /\ err = "ok"
    /\ op = "init"
    /\ cleared_len = 0

Init ==
    /\ variant \in {"dash", "streamlit"}
    /\ InitApp
    /\ fn_rings = << >>
    /\ fn_distance = 0
    /\ fn_outcome = "pending"
    /\ fn_result = 0

Next ==
    \/ DashClick
    \/ DashClear
    \/ DashSelect
    \/ DashRender
    \/ DashDownload
    \/ StClick
    \/ StSelect
    \/ StSave
    \/ StClear

Spec == Init /\ [][Next]_vars

InitScore ==
    /\ variant = "score"
    /\ InitApp
    /\ fn_rings \in RingLists
    /\ fn_distance \in Distances
    /\ fn_outcome = "pending"
    /\ fn_result = 0

NextScore == CallScore

SpecScore == InitScore /\ [][NextScore]_vars

---------------------------------------------------------------------------
\* What the claims are stated with.

DistinctDiameters(rings) ==
    \A i, j \in DOMAIN rings : i # j => rings[i].diameter # rings[j].diameter

\* The scoring rule as the specification words it, with no sort and no
\* scan: the points of the ring of smallest diameter among those whose
\* radius reaches the distance, 0 when there is none.
ScoringRule(rings, distance_mm) ==
    LET inside == {i \in DOMAIN rings : rings[i].diameter * canvas_size >= 2 * distance_mm}
    IN  IF inside = {} THEN 0
        ELSE rings[CHOOSE i \in inside :
                     \A j \in inside : rings[i].diameter <= rings[j].diameter].points

Permutations(n) ==
    {p \in [1..n -> 1..n] : \A i, j \in 1..n : i # j => p[i] # p[j]}

\* The target whose rings the shots of the log were scored with.
LogTarget == IF variant = "streamlit" THEN active_target ELSE selected

IsPrefix(s, t) == Len(s) <= Len(t) /\ SubSeq(t, 1, Len(s)) = s

---------------------------------------------------------------------------
\* C1: for pairwise distinct positive diameters and a distance d >= 0,
\* compute_score returns the points of the ring of smallest diameter among
\* those with diameter / 2 >= d (the boundary counts as inside, d = 0
\* gives the smallest ring) and 0 when d is beyond every radius.
C1_SmallestContainingRing ==
    (fn_outcome = "returned" /\ DistinctDiameters(fn_rings))
        => fn_result = ScoringRule(fn_rings, fn_distance)

\* A call exactly on the boundary of a ring that is neither the first
\* listed nor the smallest, which returned that ring's points.
C1_Witness ==
    /\ fn_outcome = "returned"
    /\ DistinctDiameters(fn_rings)
    /\ \E i, j \in DOMAIN fn_rings :
         /\ i > 1
         /\ fn_rings[j].diameter < fn_rings[i].diameter
         /\ 2 * fn_distance = fn_rings[i].diameter * canvas_size
         /\ fn_rings[i].points # fn_rings[j].points
         /\ fn_result = fn_rings[i].points

\* C9: with pairwise distinct diameters, compute_score returns the same
\* score however the rings are ordered in the target's ring list.
C9_OrderIndependent ==
    (fn_outcome = "returned" /\ DistinctDiameters(fn_rings))
        => \A p \in Permutations(Len(fn_rings)) :
             compute_score([i \in DOMAIN fn_rings |-> fn_rings[p[i]]], fn_distance) = fn_result

\* A call on a list of three rings in neither ascending nor descending
\* order, in which the first listed ring contains the distance and is not
\* the one that scores.
C9_Witness ==
    /\ fn_outcome = "returned"
    /\ DistinctDiameters(fn_rings)
    /\ Len(fn_rings) >= 2
    /\ fn_rings[1].diameter > fn_rings[2].diameter
    /\ 2 * fn_distance <= fn_rings[2].diameter * canvas_size
    /\ fn_rings[1].points # fn_rings[2].points
    /\ fn_result = fn_rings[2].points

\* C8: scoring against a target whose ring set is empty ends in an error:
\* no call of compute_score on an empty ring set returns a score.
C8_EmptyRingSetNeverScores ==
    ~(fn_outcome = "returned" /\ fn_rings = << >>)

---------------------------------------------------------------------------
\* C2: every click that is logged grows the log by exactly one; the new
\* shot is last, its index is the new length, and the shots already there
\* keep their place and their index.
C2_AppendGrowsByOne ==
    [][ /\ (op' = "click" /\ shots' # shots) => Len(shots') > Len(shots)
        /\ Len(shots') > Len(shots) =>
             /\ Len(shots') = Len(shots) + 1
             /\ IsPrefix(shots, shots')
             /\ shots'[Len(shots')].shot = Len(shots')
        /\ \A i \in DOMAIN shots' : shots'[i].shot = i ]_vars

\* A third shot logged by a click behind two others.
C2_Witness ==
    /\ op = "click"
    /\ err = "ok"
    /\ Len(shots) = 3
    /\ shots[3].shot = 3
    /\ shots[3].pixel_x = clicked[1].x
    /\ shots[1] # shots[3]

\* C3: whenever the selected target changes to another target (one with
\* rings), the log is empty once the change is processed, whatever it held
\* and whatever click is still pending from the previous target.
C3_TargetChangeEmptiesLog ==
    [][ (op' = "select" /\ selected' # selected
           /\ get_target_config(selected').rings # << >>)
          => shots' = << >> ]_vars

\* C4: every shot carries the score that the scoring rule gives its own
\* (x_mm, y_mm) under the rings of the target active when it was logged,
\* and no operation changes a shot that stays in the log.
C4_ScoresFollowRule ==
    [][ /\ \A i \in DOMAIN shots' :
             shots'[i].score =
               ScoringRule(get_target_config(LogTarget').rings,
                           hypot(shots'[i].x_mm, shots'[i].y_mm))
        /\ (op' \in {"click", "export"} /\ Len(shots') >= Len(shots))
             => IsPrefix(shots, shots') ]_vars

\* An export behind two shots of different, non-zero scores, one of them
\* exactly on a ring boundary of the second target.
C4_Witness ==
    /\ op = "export"
    /\ LogTarget = "Practice Target"
    /\ Len(shots) >= 2
    /\ shots[1].score = 3
    /\ 2 * shots[1].x_mm = 10 * canvas_size
    /\ shots[2].score = 7

\* C5: Clear empties the log from any state, an empty one included, and
\* the first shot logged after it has index 1: three shots, Clear, one
\* shot gives a log of one shot of index 1.
C5_ClearRestartsAtOne ==
    [][ /\ op' = "clear" => shots' = << >>
        /\ (shots = << >> /\ shots' # << >>)
             => (Len(shots') = 1 /\ shots'[1].shot = 1) ]_vars

\* Clear discarded three shots, and one click has been logged since.
C5_Witness ==
    /\ cleared_len = 3
    /\ op = "click"
    /\ Len(shots) = 1
    /\ shots[1].shot = 1

\* The rows the specification's export holds: index, score, and x_mm and
\* y_mm rounded to 2 decimals, one row per shot in log order.
SpecRows(log) ==
    [i \in DOMAIN log |->
       << log[i].shot, log[i].score, round2(log[i].x_mm), round2(log[i].y_mm) >>]

\* C6: an export holds exactly the columns shot, score, x_mm, y_mm (that
\* header), x_mm and y_mm rounded to 2 decimals, one row per shot in log
\* order, and no other column.
C6_ExportColumns ==
    export_out.sent =>
        /\ export_out.header = << "shot", "score", "x_mm", "y_mm" >>
        /\ export_out.rows = SpecRows(shots)

\* C7: an export requested on an empty log produces no file (not an empty
\* or header-only one) and leaves the log empty; a file comes only from a
\* populated log.
C7_NoExportOfEmptyLog ==
    [][ op' = "export" =>
          /\ shots' = shots
          /\ shots = << >> => ~export_out'.sent
          /\ export_out'.sent => (shots # << >> /\ Len(export_out'.rows) = Len(shots)) ]_vars

\* An export was requested on an empty log, and nothing was sent.
C7_Witness ==
    /\ op = "export"
    /\ shots = << >>
    /\ ~export_out.sent

\* C10: in the Streamlit application a run whose reported click has the
\* signature the session holds when the script compares them logs no shot;
\* a run whose click has another signature logs exactly one shot and
\* records the signature; so, the target staying the same, a run that
\* delivers the same click again adds no second shot for it.
C10_RepeatedClickLoggedOnce ==
    [][ (variant = "streamlit" /\ err' = "ok" /\ clicked' # << >>) =>
          LET changed == selected' # active_target
              base == IF changed THEN << >> ELSE shots
              held == IF changed THEN << >> ELSE last_click_signature
              signature == click_signature(clicked'[1])
          IN  /\ signature = held => shots' \in {base, << >>}
              /\ signature # held =>
                   /\ Len(shots') = Len(base) + 1
                   /\ IsPrefix(base, shots')
                   /\ last_click_signature' = signature
              /\ (~changed /\ signature = last_click_signature) =>
                   Len(shots') <= Len(shots) ]_vars

\* A press of Save delivered the click behind the only shot once more, and
\* the log still holds that one shot.
C10_Witness ==
    /\ variant = "streamlit"
    /\ op = "export"
    /\ Len(shots) = 1
    /\ clicked # << >>
    /\ click_signature(clicked[1]) = last_click_signature
    /\ shots[1].pixel_x = clicked[1].x

====
